---- MODULE Spec2Model ----
(***************************************************************************)
(* Model of the Technical Debt Agent command line tool (tda):              *)
(*   cli.py             main, run_agent, load_system_prompt                *)
(*   logging_config.py  setup_logging                                      *)
(* Text is modelled as a sequence of one-character strings, so that        *)
(* startswith, slicing, strip, split, join and upper are computed the way  *)
(* Python computes them.                                                   *)
(***************************************************************************)
EXTENDS Integers, Sequences, FiniteSets, TLC

VARIABLES
    pc,                       \* position of main / run_agent
    error,                    \* which step raised, "none" while nothing has
    query, cwd,               \* the command line arguments of main
    tempdir,                  \* tempfile.gettempdir() of the process
    env_log_level,            \* os.environ TDA_LOG_LEVEL (Unset when absent)
    env_log_file,             \* os.environ TDA_LOG_FILE  (Unset when absent)
    root_handlers,            \* logging.root.handlers
    root_level,               \* logging.root.level
    setup_calls,              \* number of calls of setup_logging so far
    setup_raised,             \* TRUE when the last call of setup_logging raised
    log_file,                 \* local variable log_file of main
    template,                 \* prompty_data.content of system_prompt.prompty
    custom_instructions,      \* local of run_agent
    single_line_instructions, \* local of run_agent
    options,                  \* the ClaudeAgentOptions object, NoOptions before
    session_open,             \* TRUE between __aenter__ and __aexit__
    sessions,                 \* number of sessions opened so far
    queries,                  \* the queries submitted through client.query
    received,                 \* the messages the response stream has yielded
    printed,                  \* the lines echoed, in order, with their stream
    steps                     \* history of the steps of run_agent

vars == <<pc, error, query, cwd, tempdir, env_log_level, env_log_file,
          root_handlers, root_level, setup_calls, setup_raised, log_file,
          template, custom_instructions, single_line_instructions, options,
          session_open, sessions, queries, received, printed, steps>>

(***************************************************************************)
(* Bounds                                                                  *)
(***************************************************************************)
MaxPieces == 4        \* a template is made of at most this many pieces
MaxStream == 2        \* a response stream yields at most this many messages
MaxBlocks == 2        \* an assistant message has at most this many blocks
MaxCalls == 3         \* setup_logging is called at most this many times
MaxInitHandlers == 2  \* handlers attached to the root logger beforehand

Unset == [t |-> "unset"]
NoOptions == [t |-> "none"]
None == [t |-> "None"]

(***************************************************************************)
(* Text helpers (Python str methods)                                       *)
(***************************************************************************)
\* characters str.isspace() accepts, restricted to the ones the model uses
Whitespace == {" ", "\t", "\n"}

startswith(s, p) == Len(s) >= Len(p) /\ SubSeq(s, 1, Len(p)) = p

RECURSIVE lstrip(_)
lstrip(s) ==
    IF s # <<>> /\ Head(s) \in Whitespace THEN lstrip(Tail(s)) ELSE s

RECURSIVE rstrip(_)
rstrip(s) ==
    IF s # <<>> /\ s[Len(s)] \in Whitespace
    THEN rstrip(SubSeq(s, 1, Len(s) - 1)) ELSE s

strip(s) == rstrip(lstrip(s))

\* the first word of a text that starts with a non-whitespace character
RECURSIVE TakeWord(_)
TakeWord(s) ==
    IF s = <<>> \/ Head(s) \in Whitespace THEN <<>>
    ELSE <<Head(s)>> \o TakeWord(Tail(s))

\* str.split() without arguments: the words between runs of whitespace
RECURSIVE split(_)
split(s) ==
    LET t == lstrip(s)
        w == TakeWord(t)
    IN  IF t = <<>> THEN <<>>
        ELSE <<w>> \o split(SubSeq(t, Len(w) + 1, Len(t)))

\* sep.join(words)
RECURSIVE join(_, _)
join(sep, words) ==
    IF words = <<>> THEN <<>>
    ELSE IF Len(words) = 1 THEN words[1]
    ELSE words[1] \o sep \o join(sep, Tail(words))

LowerChars == <<"a","b","c","d","e","f","g","h","i","j","k","l","m",
                "n","o","p","q","r","s","t","u","v","w","x","y","z">>
UpperChars == <<"A","B","C","D","E","F","G","H","I","J","K","L","M",
                "N","O","P","Q","R","S","T","U","V","W","X","Y","Z">>

UpperChar(c) ==
    IF \E i \in 1..Len(LowerChars) : LowerChars[i] = c
    THEN UpperChars[CHOOSE i \in 1..Len(LowerChars) : LowerChars[i] = c]
    ELSE c

\* str.upper()
upper(s) == [i \in 1..Len(s) |-> UpperChar(s[i])]

(***************************************************************************)
(* cli.py: load_system_prompt and the whitespace collapse of run_agent     *)
(***************************************************************************)
MARKER == <<"s","y","s","t","e","m",":">>

\* load_system_prompt with the slice one character short: the colon stays
load_system_prompt_short_slice(content) ==
    IF startswith(content, MARKER)
    THEN strip(SubSeq(content, 7, Len(content)))
    ELSE content

\* cli.py 36-39, applied to prompty_data.content
load_system_prompt(content) ==
    IF startswith(content, MARKER)
    THEN strip(SubSeq(content, 8, Len(content)))
    ELSE content

\* cli.py 79
collapse(instructions) == join(<<" ">>, split(instructions))

\* the pieces templates are built from
Pieces == {MARKER, <<" ">>, <<"\n">>, <<"\t">>, <<"a">>}

RECURSIVE ContentsOf(_)
ContentsOf(n) ==
    IF n = 0 THEN {<<>>}
    ELSE LET prev == ContentsOf(n - 1)
         IN  prev \cup {c \o p : c \in prev, p \in Pieces}

Contents == ContentsOf(MaxPieces)

(***************************************************************************)
(* logging_config.py: setup_logging                                        *)
(***************************************************************************)
\* Python values that getattr(logging, name, default) can return
PyInt(n) == [t |-> "int", v |-> n]
PyStr(s) == [t |-> "str", v |-> s]
PyDict == [t |-> "dict"]

\* the numeric levels of the logging module
DEBUG == PyInt(10)
INFO == PyInt(20)
WARNING == PyInt(30)
ERROR == PyInt(40)
CRITICAL == PyInt(50)
NOTSET == PyInt(0)

\* the attributes of the logging module whose name str.upper() can produce
LoggingAttrs ==
    { <<<<"D","E","B","U","G">>, DEBUG>>, <<<<"I","N","F","O">>, INFO>>, <<<<"W","A","R","N","I","N","G">>, WARNING>>,
      <<<<"W","A","R","N">>, WARNING>>, <<<<"E","R","R","O","R">>, ERROR>>, <<<<"C","R","I","T","I","C","A","L">>, CRITICAL>>,
      <<<<"F","A","T","A","L">>, CRITICAL>>, <<<<"N","O","T","S","E","T">>, NOTSET>>,
      <<<<"B","A","S","I","C","_","F","O","R","M","A","T">>, PyStr("%(levelname)s:%(name)s:%(message)s")>>,
      <<<<"_","S","T","Y","L","E","S">>, PyDict>> }

\* getattr(logging, name, default)
getattr_logging(name, default) ==
    IF \E a \in LoggingAttrs : a[1] = name
    THEN (CHOOSE a \in LoggingAttrs : a[1] = name)[2]
    ELSE default

\* logging._nameToLevel, the level names Handler.setLevel accepts as text
NameToLevel ==
    { <<"CRITICAL", CRITICAL>>, <<"FATAL", CRITICAL>>, <<"ERROR", ERROR>>,
      <<"WARN", WARNING>>, <<"WARNING", WARNING>>, <<"INFO", INFO>>,
      <<"DEBUG", DEBUG>>, <<"NOTSET", NOTSET>> }

\* logging._checkLevel: the level Handler.setLevel stores, or the error raised
checkLevel(value) ==
    IF value.t = "int" THEN [ok |-> TRUE, level |-> value.v]
    ELSE IF value.t = "str"
    THEN IF \E n \in NameToLevel : n[1] = value.v
         THEN [ok |-> TRUE,
               level |-> (CHOOSE n \in NameToLevel : n[1] = value.v)[2].v]
         ELSE [ok |-> FALSE, exc |-> "ValueError"]
    ELSE [ok |-> FALSE, exc |-> "TypeError"]

\* logging_config.py 15: os.getenv("TDA_LOG_LEVEL", "INFO")
getenv_log_level(env) == IF env = Unset THEN <<"I","N","F","O">> ELSE env

\* logging_config.py 37: the argument and outcome of console_handler.setLevel
console_level(env) ==
    checkLevel(getattr_logging(upper(getenv_log_level(env)), INFO))

\* logging_config.py 16-17: os.path.join(tempfile.gettempdir(), "tda.log")
log_path(dir) == [dir |-> dir, name |-> "tda.log"]

\* logging_config.py 23-27, 36
file_handler(dir) ==
    [kind |-> "RotatingFileHandler", file |-> log_path(dir),
     maxBytes |-> 5 * 1024 * 1024, backupCount |-> 3, level |-> DEBUG.v]

\* logging_config.py 28, 37
console_handler(level) == [kind |-> "StreamHandler", level |-> level]

\* the values of TDA_LOG_LEVEL the model draws from
LogLevelValues ==
    { Unset, <<>>, <<"D","E","B","U","G">>, <<"d","e","b","u","g">>, <<"D","e","b","u","g">>, <<"I","N","F","O">>, <<"i","n","f","o">>,
      <<"W","A","R","N","I","N","G">>, <<"w","a","r","n","i","n","g">>, <<"E","R","R","O","R">>, <<"e","r","r","o","r">>, <<"E","r","r","o","r">>,
      <<"v","e","r","b","o","s","e">>, <<"t","r","a","c","e">>, <<"c","r","i","t","i","c","a","l">>, <<"n","o","t","s","e","t">>,
      <<"b","a","s","i","c","_","f","o","r","m","a","t">>, <<"B","A","S","I","C","_","F","O","R","M","A","T">>, <<"_","s","t","y","l","e","s">> }

\* the values of tempfile.gettempdir() the model draws from
TempDirs == {"/tmp", "/var/tmp"}

(***************************************************************************)
(* The response stream of the agent client                                 *)
(***************************************************************************)
Texts == {"a", "b"}

\* content blocks: TextBlock and any other block (ToolUseBlock, ...)
TextBlock(text) == [type |-> "TextBlock", text |-> text]
OtherBlock == [type |-> "ToolUseBlock"]
Blocks == {TextBlock(t) : t \in Texts} \cup {OtherBlock}
BlockSeqs == UNION {[1..n -> Blocks] : n \in 0..MaxBlocks}

\* total_cost_usd is None or a float, held here in units of 0.00001 dollar
Float(n) == [t |-> "float", v |-> n]
Costs == {None, Float(0), Float(12346)}

AssistantMessage(content) == [type |-> "AssistantMessage", content |-> content]
ResultMessage(cost) == [type |-> "ResultMessage", total_cost_usd |-> cost]
SystemMessage == [type |-> "SystemMessage"]

Messages ==
    {AssistantMessage(c) : c \in BlockSeqs}
    \cup {ResultMessage(c) : c \in Costs} \cup {SystemMessage}

\* Python truth value of total_cost_usd (cli.py 105)
Truthy(cost) == cost.t = "float" /\ cost.v # 0

\* format(total_cost_usd, ".4f") in units of 0.0001 dollar (cli.py 106);
\* the costs of the model are never half way between two such units
Format4f(cost) == (cost.v + 5) \div 10

\* click.echo(text): one line on stdout, or on stderr with err=True;
\* msg is the position in the stream of the message being handled (0: none)
Echo(fd, line, msg) == [fd |-> fd, line |-> line, msg |-> msg]

\* EchoBlocks without the isinstance test: every block is echoed
RECURSIVE EchoBlocksAny(_, _)
EchoBlocksAny(content, msg) ==
    IF content = <<>> THEN <<>>
    ELSE <<Echo("stdout",
                IF Head(content).type = "TextBlock"
                THEN Head(content).text ELSE "?", msg)>>
         \o EchoBlocksAny(Tail(content), msg)

\* cli.py 101-103: the lines echoed for the blocks of an assistant message
RECURSIVE EchoBlocks(_, _)
EchoBlocks(content, msg) ==
    IF content = <<>> THEN <<>>
    ELSE (IF Head(content).type = "TextBlock"
          THEN <<Echo("stdout", Head(content).text, msg)>>
          ELSE <<>>) \o EchoBlocks(Tail(content), msg)

\* EchoCost testing "is not None" instead of the truth value
EchoCostNotNone(message, msg) ==
    IF message.total_cost_usd.t = "float"
    THEN <<Echo("stderr",
                [kind |-> "Cost", amount |-> Format4f(message.total_cost_usd)],
                msg)>>
    ELSE <<>>

\* cli.py 105-106: the cost line echoed for a result message
EchoCost(message, msg) ==
    IF Truthy(message.total_cost_usd)
    THEN <<Echo("stderr",
                [kind |-> "Cost", amount |-> Format4f(message.total_cost_usd)],
                msg)>>
    ELSE <<>>

\* cli.py 100-106: the body of the loop for one message
HandleMessage(message, msg) ==
    IF message.type = "AssistantMessage" THEN EchoBlocks(message.content, msg)
    ELSE IF message.type = "ResultMessage" THEN EchoCost(message, msg)
    ELSE <<>>

(***************************************************************************)
(* cli.py: run_agent                                                       *)
(***************************************************************************)
\* the allowed tools with a built-in tool let through
AllowedToolsWithBash ==
    <<"mcp__techdebt__extract_style_diagnostics",
      "mcp__techdebt__extract_analyzers_diagnostics", "Bash">>

\* cli.py 83-86
AllowedTools ==
    <<"mcp__techdebt__extract_style_diagnostics",
      "mcp__techdebt__extract_analyzers_diagnostics">>

\* cli.py 81-94
ClaudeAgentOptions(dir, append) ==
    [t |-> "ClaudeAgentOptions",
     mcp_servers |-> {"techdebt"},
     allowed_tools |-> AllowedTools,
     cwd |-> dir,
     permission_mode |-> "acceptEdits",
     system_prompt |->
        [type |-> "preset", preset |-> "claude_code", append |-> append]]

loggingVars == <<env_log_level, root_handlers, root_level, setup_calls,
                 setup_raised>>
mainVars == <<query, cwd, tempdir, env_log_file, log_file>>
promptVars == <<template, custom_instructions, single_line_instructions>>
sessionVars == <<session_open, sessions, queries, received>>

\* cli.py 75
LoadSystemPrompt ==
    /\ pc = "load_system_prompt"
    /\ custom_instructions' = load_system_prompt(template)
    /\ pc' = "collapse"
    /\ UNCHANGED <<error, mainVars, loggingVars, template,
                   single_line_instructions, options, sessionVars, printed,
                   steps>>

\* cli.py 79
Collapse ==
    /\ pc = "collapse"
    /\ single_line_instructions' = collapse(custom_instructions)
    /\ pc' = "options"
    /\ UNCHANGED <<error, mainVars, loggingVars, template,
                   custom_instructions, options, sessionVars, printed, steps>>

\* cli.py 81-94
BuildOptions ==
    /\ pc = "options"
    /\ options' = ClaudeAgentOptions(cwd, single_line_instructions)
    /\ steps' = Append(steps, "options")
    /\ pc' = "open"
    /\ UNCHANGED <<error, mainVars, loggingVars, promptVars, sessionVars,
                   printed>>

\* cli.py 96: ClaudeSDKClient(options).__aenter__ connects
OpenSession ==
    /\ pc = "open"
    /\ session_open' = TRUE
    /\ sessions' = sessions + 1
    /\ steps' = Append(steps, "open")
    /\ pc' = "query"
    /\ UNCHANGED <<error, mainVars, loggingVars, promptVars, options,
                   queries, received, printed>>

\* cli.py 96: __aenter__ raises, no session exists and run_agent propagates
OpenSessionRaises ==
    /\ pc = "open"
    /\ error' = "session"
    /\ steps' = Append(steps, "open_raised")
    /\ pc' = "exited"
    /\ UNCHANGED <<mainVars, loggingVars, promptVars, options, sessionVars,
                   printed>>

\* cli.py 97: await client.query(query) returns
Query ==
    /\ pc = "query"
    /\ queries' = Append(queries, query)
    /\ steps' = Append(steps, "query")
    /\ pc' = "receive"
    /\ UNCHANGED <<error, mainVars, loggingVars, promptVars, options,
                   session_open, sessions, received, printed>>

\* QueryRaises with one retry of the query
QueryRaisesRetry ==
    /\ pc = "query"
    /\ queries' = Append(queries, query)
    /\ steps' = Append(steps, "query")
    /\ IF Len(queries) = 0
       THEN pc' = "query" /\ UNCHANGED error
       ELSE pc' = "close" /\ error' = "query"
    /\ UNCHANGED <<mainVars, loggingVars, promptVars, options,
                   session_open, sessions, received, printed>>

\* cli.py 97: client.query(query) raises, the with block is left
QueryRaises ==
    /\ pc = "query"
    /\ queries' = Append(queries, query)
    /\ error' = "query"
    /\ steps' = Append(steps, "query")
    /\ pc' = "close"
    /\ UNCHANGED <<mainVars, loggingVars, promptVars, options,
                   session_open, sessions, received, printed>>

\* cli.py 99-106: the stream yields a message and the loop body handles it
Receive ==
    /\ pc = "receive"
    /\ Len(received) < MaxStream
    /\ \E message \in Messages :
          /\ received' = Append(received, message)
          /\ printed' = printed \o HandleMessage(message, Len(received) + 1)
    /\ steps' = Append(steps, "message")
    /\ UNCHANGED <<pc, error, mainVars, loggingVars, promptVars, options,
                   session_open, sessions, queries>>

\* cli.py 103, 106: click.echo raises after k lines of the message were echoed
EchoRaises ==
    /\ pc = "receive"
    /\ Len(received) < MaxStream
    /\ \E message \in Messages :
          LET out == HandleMessage(message, Len(received) + 1)
          IN  /\ out # <<>>
              /\ \E k \in 0..(Len(out) - 1) :
                    printed' = printed \o SubSeq(out, 1, k)
              /\ received' = Append(received, message)
    /\ error' = "echo"
    /\ steps' = Append(steps, "message")
    /\ pc' = "close"
    /\ UNCHANGED <<mainVars, loggingVars, promptVars, options,
                   session_open, sessions, queries>>

\* cli.py 99: the response stream raises instead of yielding
StreamRaises ==
    /\ pc = "receive"
    /\ error' = "stream"
    /\ steps' = Append(steps, "stream_raised")
    /\ pc' = "close"
    /\ UNCHANGED <<mainVars, loggingVars, promptVars, options, sessionVars,
                   printed>>

\* cli.py 99: the response stream is exhausted
StreamEnds ==
    /\ pc = "receive"
    /\ steps' = Append(steps, "stream_end")
    /\ pc' = "close"
    /\ UNCHANGED <<error, mainVars, loggingVars, promptVars, options,
                   sessionVars, printed>>

\* CloseSession without the context manager: closed on the normal path only
CloseSessionNoFinally ==
    /\ pc = "close"
    /\ session_open' = (error # "none")
    /\ steps' = IF error = "none" THEN Append(steps, "close") ELSE steps
    /\ pc' = IF error = "none" THEN "echo_logs" ELSE "exited"
    /\ UNCHANGED <<error, mainVars, loggingVars, promptVars, options,
                   sessions, queries, received, printed>>

\* cli.py 96: __aexit__ disconnects; an error of the block then propagates
\* out of run_agent and anyio.run, past cli.py 70
CloseSession ==
    /\ pc = "close"
    /\ session_open' = FALSE
    /\ steps' = Append(steps, "close")
    /\ pc' = IF error = "none" THEN "echo_logs" ELSE "exited"
    /\ UNCHANGED <<error, mainVars, loggingVars, promptVars, options,
                   sessions, queries, received, printed>>

(***************************************************************************)
(* logging_config.py: setup_logging as a step; cli.py: main                *)
(***************************************************************************)
\* logging_config.py 20, 41-42: the handlers of the root logger after a call
\* whose console level was accepted
handlers_after(old, dir, level) ==
    <<file_handler(dir), console_handler(level)>>

\* logging_config.py 15-42: one call of setup_logging. Handler.setLevel of
\* line 37 raises after line 20 cleared the handlers and before lines 40-42
setup_logging ==
    LET outcome == console_level(env_log_level)
    IN  /\ setup_calls' = setup_calls + 1
        /\ setup_raised' = ~outcome.ok
        /\ root_handlers' =
              IF outcome.ok
              THEN handlers_after(root_handlers, tempdir, outcome.level)
              ELSE <<>>
        /\ root_level' = IF outcome.ok THEN DEBUG.v ELSE root_level
        /\ UNCHANGED env_log_level

\* cli.py 64
SetupLogging ==
    /\ pc = "setup_logging"
    /\ setup_logging
    /\ IF setup_raised'
       THEN error' = "setup_logging" /\ pc' = "exited" /\ UNCHANGED log_file
       ELSE log_file' = log_path(tempdir) /\ pc' = "set_env"
            /\ UNCHANGED error
    /\ UNCHANGED <<query, cwd, tempdir, env_log_file, promptVars, options,
                   sessionVars, printed, steps>>

\* SetEnv with the assignment of TDA_LOG_FILE left out
SetEnvSkipped ==
    /\ pc = "set_env"
    /\ pc' = "load_system_prompt"
    /\ UNCHANGED <<error, mainVars, loggingVars, promptVars, options,
                   sessionVars, printed, steps>>

\* cli.py 65, then 67 enters run_agent
SetEnv ==
    /\ pc = "set_env"
    /\ env_log_file' = log_file
    /\ pc' = "load_system_prompt"
    /\ UNCHANGED <<error, query, cwd, tempdir, log_file, loggingVars,
                   promptVars, options, sessionVars, printed, steps>>

\* cli.py 70
EchoLogs ==
    /\ pc = "echo_logs"
    /\ printed' =
          Append(printed, Echo("stderr", [kind |-> "Logs", path |-> log_file], 0))
    /\ pc' = "exited"
    /\ UNCHANGED <<error, mainVars, loggingVars, promptVars, options,
                   sessionVars, steps>>

\* a caller other than main calls setup_logging, any number of times
CallSetupLogging ==
    /\ pc = "logging"
    /\ setup_calls < MaxCalls
    /\ setup_logging
    /\ UNCHANGED <<pc, error, mainVars, promptVars, options, sessionVars,
                   printed, steps>>

(***************************************************************************)
(* Initial states and specifications                                       *)
(***************************************************************************)
\* the command lines and environments runs of main are explored with
Invocations ==
    { [query |-> "summary of style diagnostics", cwd |-> ".",
       tempdir |-> "/tmp", log_level |-> Unset],
      [query |-> "most common analyzer diagnostics", cwd |-> "/path/to/project",
       tempdir |-> "/var/tmp", log_level |-> <<"d","e","b","u","g">>],
      [query |-> "summary of style diagnostics", cwd |-> "/path/to/project",
       tempdir |-> "/tmp", log_level |-> <<"b","a","s","i","c","_","f","o","r","m","a","t">>] }

\* the template runs of main are explored with: "system:\na \n\ta\n"
MainTemplates ==
    {MARKER \o <<"\n", "a", " ", "\n", "\t", "a", "\n">>}

\* handlers attached to the root logger before the first call
InitHandlers ==
    {console_handler(WARNING.v), file_handler("/tmp"),
     [kind |-> "NullHandler", level |-> NOTSET.v]}
InitHandlerSeqs == UNION {[1..n -> InitHandlers] : n \in 0..MaxInitHandlers}

InitCommon ==
    /\ error = "none"
    /\ env_log_file = Unset
    /\ root_level = WARNING.v
    /\ setup_calls = 0
    /\ setup_raised = FALSE
    /\ log_file = Unset
    /\ custom_instructions = <<>>
    /\ single_line_instructions = <<>>
    /\ options = NoOptions
    /\ session_open = FALSE
    /\ sessions = 0
    /\ queries = <<>>
    /\ received = <<>>
    /\ printed = <<>>
    /\ steps = <<>>

\* main is started from the command line
Init ==
    /\ pc = "setup_logging"
    /\ \E inv \in Invocations :
          /\ query = inv.query
          /\ cwd = inv.cwd
          /\ tempdir = inv.tempdir
          /\ env_log_level = inv.log_level
    /\ root_handlers = <<>>
    /\ template \in MainTemplates
    /\ InitCommon

Next ==
    \/ SetupLogging
    \/ SetEnv
    \/ LoadSystemPrompt
    \/ Collapse
    \/ BuildOptions
    \/ OpenSession
    \/ OpenSessionRaises
    \/ Query
    \/ QueryRaises
    \/ Receive
    \/ EchoRaises
    \/ StreamRaises
    \/ StreamEnds
    \/ CloseSession
    \/ EchoLogs

Spec == Init /\ [][Next]_vars

\* the prompt loader of run_agent on every template of the bounded set
InitPrompt ==
    /\ pc = "load_system_prompt"
    /\ query = "summary of style diagnostics"
    /\ cwd = "."
    /\ tempdir = "/tmp"
    /\ env_log_level = Unset
    /\ root_handlers = <<>>
    /\ template \in Contents
    /\ InitCommon

NextPrompt == LoadSystemPrompt \/ Collapse

SpecPrompt == InitPrompt /\ [][NextPrompt]_vars

\* setup_logging called repeatedly, from any handlers and any TDA_LOG_LEVEL
InitLogging ==
    /\ pc = "logging"
    /\ query = "summary of style diagnostics"
    /\ cwd = "."
    /\ tempdir \in TempDirs
    /\ env_log_level \in LogLevelValues
    /\ root_handlers \in InitHandlerSeqs
    /\ template = <<>>
    /\ InitCommon

NextLogging == CallSetupLogging

SpecLogging == InitLogging /\ [][NextLogging]_vars

(***************************************************************************)
(* Properties                                                              *)
(***************************************************************************)
IsPrefix(s, t) == Len(s) <= Len(t) /\ SubSeq(t, 1, Len(s)) = s

\* run_agent has returned or propagated an error
RunAgentOver == pc \in {"echo_logs", "exited"} /\ error # "setup_logging"

\* run_agent has been entered
RunAgentStarted == pc \notin {"setup_logging", "set_env", "logging"}
                   /\ error # "setup_logging"

\* the positions of the lines of one stream in printed
LinesOn(fd) == {p \in 1..Len(printed) : printed[p].fd = fd}

RECURSIVE LinesOfUpTo(_, _)
LinesOfUpTo(fd, n) ==
    IF n = 0 THEN <<>>
    ELSE LinesOfUpTo(fd, n - 1)
         \o (IF printed[n].fd = fd THEN <<printed[n].line>> ELSE <<>>)

\* what was written to standard output, in order
Stdout == LinesOfUpTo("stdout", Len(printed))

StepOrder ==
    \A i \in 1..Len(steps) :
        /\ steps[i] = "options" => i = 1
        /\ steps[i] \in {"open", "open_raised"} => i = 2 /\ steps[1] = "options"
        /\ steps[i] = "query" => i = 3 /\ steps[2] = "open"
        /\ steps[i] \in {"message", "stream_end", "stream_raised"} =>
              i > 3 /\ steps[3] = "query"

StateOrder ==
    /\ sessions > 0 => options # NoOptions
    /\ queries # <<>> => sessions = 1
    /\ received # <<>> => Len(queries) = 1
    /\ printed # <<>> /\ pc # "exited" => Len(queries) = 1

\* C1 as stated: the steps of run_agent happen in the order configuration,
\* session, query, stream, and every invocation of run_agent that is over
\* has submitted exactly one query.
C1_ExactlyOneQuery ==
    /\ StepOrder
    /\ StateOrder
    /\ RunAgentOver => Len(queries) = 1

\* C1 amended: the steps happen in the order configuration, session, query,
\* stream; no message is consumed before the query; at most one session is
\* opened and at most one query submitted; exactly one query once the
\* session was opened and the run is over, none when opening the session
\* raised; after an error nothing is opened, submitted or consumed.
C1_OrderAndAtMostOneQuery ==
    /\ [](/\ StepOrder
          /\ StateOrder
          /\ sessions <= 1
          /\ Len(queries) <= 1
          /\ (RunAgentOver /\ sessions = 1 => Len(queries) = 1)
          /\ (error = "session" => queries = <<>> /\ received = <<>>))
    /\ [][error # "none" =>
             /\ queries' = queries
             /\ sessions' = sessions
             /\ received' = received
             /\ error' = error]_vars

C1_Witness ==
    /\ pc = "exited"
    /\ error = "stream"
    /\ Len(queries) = 1
    /\ Len(received) >= 2

\* C2: once built, the configuration permits exactly the two techdebt tools,
\* whatever the query and working directory; the session is only opened
\* with it, and nothing that happens afterwards changes it.
C2_AllowedTools ==
    /\ [](/\ options # NoOptions =>
                /\ Len(options.allowed_tools) = 2
                /\ {options.allowed_tools[i] : i \in 1..2} =
                      {"mcp__techdebt__extract_style_diagnostics",
                       "mcp__techdebt__extract_analyzers_diagnostics"}
                /\ options.cwd = cwd
          /\ (session_open \/ sessions > 0) => options # NoOptions)
    /\ [][options # NoOptions => options' = options]_vars

C2_Witness ==
    /\ session_open
    /\ received # <<>>
    /\ options # NoOptions
    /\ options.cwd = "/path/to/project"
    /\ query = "most common analyzer diagnostics"

\* reference: every run of whitespace between two words becomes one space,
\* whitespace before the first and after the last word is dropped
RECURSIVE Squeeze(_, _, _)
Squeeze(s, out, gap) ==
    IF s = <<>> THEN out
    ELSE IF Head(s) \in Whitespace THEN Squeeze(Tail(s), out, out # <<>>)
    ELSE Squeeze(Tail(s), out \o (IF gap THEN <<" ">> ELSE <<>>) \o <<Head(s)>>,
                 FALSE)

\* the template without one marker at its very start
WithoutMarker(content) ==
    IF Len(content) >= 7 /\ \A i \in 1..7 : content[i] = MARKER[i]
    THEN [i \in 1..(Len(content) - 7) |-> content[i + 7]]
    ELSE content

WellFormedLine(line) ==
    /\ \A i \in 1..Len(line) : line[i] \notin {"\n", "\t"}
    /\ \A i \in 1..(Len(line) - 1) :
          ~(line[i] \in Whitespace /\ line[i + 1] \in Whitespace)
    /\ line # <<>> => line[1] \notin Whitespace /\ line[Len(line)] \notin Whitespace

\* C3 as stated: the appended instructions are the template without its
\* leading marker and with whitespace collapsed, a well formed single line
\* that does not begin with the marker.
C3_NeverStartsWithMarker ==
    pc = "options" =>
        /\ single_line_instructions = Squeeze(WithoutMarker(template), <<>>, FALSE)
        /\ WellFormedLine(single_line_instructions)
        /\ ~startswith(single_line_instructions, MARKER)

\* C3 amended: the appended instructions are the template without one
\* marker at offset 0 (if it starts with it) and with whitespace collapsed:
\* a single line without newline, adjacent, leading or trailing whitespace;
\* it begins with the marker exactly when the first word of what follows
\* the removed marker (or of a template that does not start with the
\* marker) begins with the marker.
C3_PromptCollapsed ==
    pc = "options" =>
        /\ single_line_instructions = Squeeze(WithoutMarker(template), <<>>, FALSE)
        /\ WellFormedLine(single_line_instructions)
        /\ startswith(single_line_instructions, MARKER)
              <=> startswith(lstrip(WithoutMarker(template)), MARKER)

C3_Witness ==
    /\ pc = "options"
    /\ startswith(template, MARKER)
    /\ \E i \in 1..(Len(template) - 1) :
          template[i] \in Whitespace /\ template[i + 1] = "\n"
    /\ template[Len(template)] \in Whitespace
    /\ Len(single_line_instructions) >= 3
    /\ single_line_instructions # template

\* reference: the texts of the text blocks of the assistant messages
RECURSIVE TextsOfBlocks(_)
TextsOfBlocks(content) ==
    IF content = <<>> THEN <<>>
    ELSE TextsOfBlocks(SubSeq(content, 1, Len(content) - 1))
         \o (IF content[Len(content)].type = "TextBlock"
             THEN <<content[Len(content)].text>> ELSE <<>>)

RECURSIVE TextsOfMessages(_)
TextsOfMessages(messages) ==
    IF messages = <<>> THEN <<>>
    ELSE TextsOfMessages(SubSeq(messages, 1, Len(messages) - 1))
         \o (IF messages[Len(messages)].type = "AssistantMessage"
             THEN TextsOfBlocks(messages[Len(messages)].content) ELSE <<>>)

\* C4: standard output holds exactly the texts of the text blocks of the
\* assistant messages consumed, in stream and block order (a prefix of them
\* when an echo raised); a message that is handled without an error, of
\* whatever type, leaves the loop iterating.
C4_StdoutIsTexts ==
    /\ [](/\ IsPrefix(Stdout, TextsOfMessages(received))
          /\ error # "echo" => Stdout = TextsOfMessages(received))
    /\ [][pc = "receive" /\ received' # received /\ error' = "none"
             => pc' = "receive"]_vars

C4_Witness ==
    /\ pc = "exited"
    /\ error = "none"
    /\ Len(received) = 2
    /\ received[1].type = "AssistantMessage"
    /\ received[1].content = <<OtherBlock, TextBlock("b")>>
    /\ received[2].type = "AssistantMessage"
    /\ received[2].content = <<TextBlock("a"), TextBlock("b")>>
    /\ Stdout = <<"b", "a", "b">>

\* message i of the stream was handled to the end of the loop body
Handled(i) == i \in 1..Len(received) /\ ~(error = "echo" /\ i = Len(received))

\* the positions in printed of the cost lines of message i
CostLines(i) ==
    {p \in LinesOn("stderr") :
        printed[p].msg = i /\ printed[p].line.kind = "Cost"}

\* C5 as stated: every result message handled has a cost summary printed.
C5_CostAlwaysPrinted ==
    \A i \in 1..Len(received) :
        Handled(i) /\ received[i].type = "ResultMessage" => CostLines(i) # {}

\* C5 amended: a result message whose total_cost_usd is neither None nor
\* zero has, once handled, exactly one cost summary on stderr, the cost
\* rounded to four decimals, printed after all the text lines of the
\* messages that precede it; a result message whose total_cost_usd is None
\* or zero has none.
C5_CostPrintedWhenTruthy ==
    \A i \in 1..Len(received) :
        Handled(i) /\ received[i].type = "ResultMessage" =>
            LET cost == received[i].total_cost_usd
            IN  IF cost # None /\ cost # Float(0)
                THEN /\ Cardinality(CostLines(i)) = 1
                     /\ \A p \in CostLines(i) :
                           /\ 10 * printed[p].line.amount - cost.v \in -5..5
                           /\ LinesOfUpTo("stdout", p) =
                                 TextsOfMessages(SubSeq(received, 1, i - 1))
                           /\ \A q \in LinesOn("stdout") :
                                 printed[q].msg < i => q < p
                ELSE CostLines(i) = {}

C5_Witness ==
    /\ pc = "exited"
    /\ error = "none"
    /\ Len(received) = 2
    /\ received[1].type = "AssistantMessage"
    /\ Len(TextsOfBlocks(received[1].content)) = 2
    /\ received[2] = ResultMessage(Float(12346))
    /\ Len(printed) = 4
    /\ printed[3].fd = "stderr"
    /\ printed[3].line = [kind |-> "Cost", amount |-> 1235]

\* the positions in printed of the "Logs: <path>" lines
LogsLines ==
    {p \in LinesOn("stderr") : printed[p].line.kind = "Logs"}

\* C6: whichever way the agent run ended, main has printed "Logs: <path>"
\* with the path setup_logging returned by the time it exits.
C6_LogsPrintedOnExit ==
    pc = "exited" /\ RunAgentStarted =>
        \E p \in LogsLines :
            printed[p].line.path = [dir |-> tempdir, name |-> "tda.log"]

\* C7: after one or more calls of setup_logging the root logger has exactly
\* two handlers, a rotating file handler on <tempdir>/tda.log and a console
\* handler, and its level is DEBUG.
C7_TwoHandlers ==
    setup_calls >= 1 =>
        /\ Len(root_handlers) = 2
        /\ \E i \in 1..Len(root_handlers) :
              /\ root_handlers[i].kind = "RotatingFileHandler"
              /\ root_handlers[i].file = [dir |-> tempdir, name |-> "tda.log"]
        /\ \E i \in 1..Len(root_handlers) :
              root_handlers[i].kind = "StreamHandler"
        /\ root_level = 10

\* the level names of the logging module
LevelNames ==
    {<<"D","E","B","U","G">>, <<"I","N","F","O">>, <<"W","A","R","N","I","N","G">>, <<"W","A","R","N">>, <<"E","R","R","O","R">>, <<"C","R","I","T","I","C","A","L">>, <<"F","A","T","A","L">>, <<"N","O","T","S","E","T">>}

\* the levels of the handlers of one kind on the root logger
LevelsOf(kind) ==
    {root_handlers[i].level :
        i \in {j \in 1..Len(root_handlers) : root_handlers[j].kind = kind}}

\* C8: after a call of setup_logging, DEBUG, INFO, WARNING, ERROR in any
\* letter case give the console handler that level; an unset variable or one
\* that names no logging level gives INFO and the call completes; the file
\* handler is at DEBUG.
C8_ConsoleLevel ==
    setup_calls >= 1 =>
        LET name == IF env_log_level = Unset THEN <<>> ELSE upper(env_log_level)
        IN  /\ name = <<"D","E","B","U","G">> => LevelsOf("StreamHandler") = {10}
            /\ name = <<"I","N","F","O">> => LevelsOf("StreamHandler") = {20}
            /\ name = <<"W","A","R","N","I","N","G">> => LevelsOf("StreamHandler") = {30}
            /\ name = <<"E","R","R","O","R">> => LevelsOf("StreamHandler") = {40}
            /\ name \notin LevelNames =>
                  ~setup_raised /\ LevelsOf("StreamHandler") = {20}
            /\ ~setup_raised => LevelsOf("RotatingFileHandler") = {10}

\* C9: a session opened by run_agent is closed when run_agent is over,
\* however the block was left; at most one session is opened, and a run
\* that opened one has closed it before it ends.
C9_SessionClosed ==
    /\ sessions <= 1
    /\ session_open => sessions = 1 /\ pc \in {"query", "receive", "close"}
    /\ RunAgentOver => ~session_open
    /\ RunAgentOver /\ sessions = 1 =>
          steps # <<>> /\ steps[Len(steps)] = "close"

C9_Witness ==
    /\ pc = "exited"
    /\ error = "echo"
    /\ sessions = 1
    /\ ~session_open
    /\ printed # <<>>

\* C10: when the agent run starts, logging is set up and TDA_LOG_FILE holds
\* the path setup_logging returned; it keeps that value until main exits,
\* and the path main prints is that value.
C10_LogFileEnv ==
    /\ [](/\ RunAgentStarted =>
                /\ setup_calls = 1
                /\ Len(root_handlers) = 2
                /\ env_log_file = [dir |-> tempdir, name |-> "tda.log"]
          /\ \A p \in LogsLines : printed[p].line.path = env_log_file)
    /\ [][env_log_file # Unset => env_log_file' = env_log_file]_vars

C10_Witness ==
    /\ pc = "exited"
    /\ error = "none"
    /\ tempdir = "/var/tmp"
    /\ LogsLines # {}
    /\ received # <<>>

====
